---- MODULE Spec2Model ----
(***************************************************************************)
(* create-skills: a command-line scaffolder for Agent Skills.              *)
(*                                                                         *)
(* lib/utils.js holds the pure helpers (validateSkillName,                 *)
(* generateSkillMdContent, createReadme) and the filesystem helpers;       *)
(* bin/create-skills.js holds main(), the flow of one run of the tool.     *)
(*                                                                         *)
(* A JavaScript string is modelled as the sequence of its characters, each *)
(* character a one-character TLA+ string, so that the regular expression,  *)
(* trim, startsWith, split and the template literals of the source are     *)
(* computed character by character.                                        *)
(***************************************************************************)
EXTENDS Integers, Sequences, FiniteSets, TLC

(***************************************************************************)
(* JavaScript values                                                       *)
(***************************************************************************)
Undefined == [t |-> "undefined"]
Null      == [t |-> "null"]
Obj       == [t |-> "object"]
Num(n)    == [t |-> "number", n |-> n]
Arr(xs)   == [t |-> "array", items |-> xs]
Str(s)    == [t |-> "string", s |-> s]

\* typeof v === 'string'
IsString(v) == v.t = "string"

\* ToBoolean(v): undefined, null, 0 and '' are falsy; objects and arrays
\* (the empty array included) are truthy.
Truthy(v) ==
    CASE v.t = "undefined" -> FALSE
      [] v.t = "null"      -> FALSE
      [] v.t = "number"    -> v.n # 0
      [] v.t = "string"    -> Len(v.s) > 0
      [] OTHER             -> TRUE

\* All sequences over the set chars of length 0..n.
StringsUpTo(chars, n) == UNION {[1..k -> chars] : k \in 0..n}

(***************************************************************************)
(* Characters                                                              *)
(***************************************************************************)
LowerCase == {"a","b","c","d","e","f","g","h","i","j","k","l","m",
              "n","o","p","q","r","s","t","u","v","w","x","y","z"}
UpperCase == {"A","B","C","D","E","F","G","H","I","J","K","L","M",
              "N","O","P","Q","R","S","T","U","V","W","X","Y","Z"}
Digits    == {"0","1","2","3","4","5","6","7","8","9"}

\* The white space String.prototype.trim removes (the part of it in use).
WhiteSpace == {" ", "\t", "\n", "\r"}

\* String.prototype.startsWith
StartsWith(s, p) == Len(s) >= Len(p) /\ SubSeq(s, 1, Len(p)) = p

\* String.prototype.trim
Trim(s) ==
    LET keep == {i \in 1..Len(s) : s[i] \notin WhiteSpace}
        Min(S) == CHOOSE i \in S : \A j \in S : i <= j
        Max(S) == CHOOSE i \in S : \A j \in S : i >= j
    IN  IF keep = {} THEN <<>> ELSE SubSeq(s, Min(keep), Max(keep))

(***************************************************************************)
(* lib/utils.js: validateSkillName                                         *)
(***************************************************************************)
\* The character class [a-zA-Z0-9-_] of validNameRegex: the ranges a-z, A-Z
\* and 0-9, then the literal characters '-' and '_'.
ValidNameClassNoUnderscore == LowerCase \cup UpperCase \cup Digits \cup {"-"}

ValidNameClass == LowerCase \cup UpperCase \cup Digits \cup {"-", "_"}

\* /^[a-zA-Z0-9-_]+$/.test(s): one or more characters, all of the class ('$'
\* without the m flag matches only at the very end of the input).
ValidNameRegexTest(s) == Len(s) >= 1 /\ \A i \in 1..Len(s) : s[i] \in ValidNameClass

\* The validator without its last check (name.startsWith('.') || ...).
ValidateSkillNameNoPrefixCheck(name) ==
    IF ~Truthy(name) \/ ~IsString(name) THEN FALSE
    ELSE IF Len(Trim(name.s)) = 0 THEN FALSE
    ELSE ValidNameRegexTest(name.s)

validateSkillName(name) ==
    IF ~Truthy(name) \/ ~IsString(name) THEN FALSE
    ELSE IF Len(Trim(name.s)) = 0 THEN FALSE
    ELSE IF ~ValidNameRegexTest(name.s) THEN FALSE
    ELSE IF StartsWith(name.s, <<".">>) \/ StartsWith(name.s, <<"-">>) THEN FALSE
    ELSE TRUE

(***************************************************************************)
(* lib/utils.js: generateSkillMdContent                                    *)
(***************************************************************************)
\* The literal text of the templates, character by character.
Dashes ==
    <<"-","-","-">>

KwName ==
    <<"n","a","m","e",":"," ">>

KwDescription ==
    <<"d","e","s","c","r","i","p","t","i","o","n",":"," ">>

KwAuthor ==
    <<"a","u","t","h","o","r",":"," ">>

KwVersion ==
    <<"v","e","r","s","i","o","n",":"," ">>

KwTags ==
    <<"t","a","g","s",":">>

KwTagItem ==
    <<" "," ","-"," ">>

KwLicense ==
    <<"l","i","c","e","n","s","e",":"," ">>

DefaultDescriptionPrefix ==
    <<"A"," ","s","k","i","l","l"," ","f","o","r"," ">>

DefaultDescriptionSuffix ==
    <<" ","f","u","n","c","t","i","o","n","a","l","i","t","y",".">>

TitlePrefix ==
    <<"#"," ">>

TitleSuffix ==
    <<" ","S","k","i","l","l">>

SkillMdBody ==
    <<"\n","\n","#","#"," ","W","h","e","n"," ","t","o"," ","u","s","e"," ",
      "t","h","i","s"," ","s","k","i","l","l","\n","U","s","e"," ","t","h",
      "i","s"," ","s","k","i","l","l"," ","w","h","e","n"," ","y","o","u"," ",
      "n","e","e","d"," ","t","o",".",".",".","\n","\n","#","#"," ","H","o",
      "w"," ","i","t"," ","w","o","r","k","s","\n","1","."," ","F","i","r",
      "s","t"," ","s","t","e","p",".",".",".","\n","2","."," ","S","e","c",
      "o","n","d"," ","s","t","e","p",".",".",".","\n","3","."," ","T","h",
      "i","r","d"," ","s","t","e","p",".",".",".","\n","\n","#","#"," ","E",
      "x","a","m","p","l","e","s","\n","P","r","o","v","i","d","e"," ","e",
      "x","a","m","p","l","e","s"," ","o","f"," ","h","o","w"," ","t","o"," ",
      "u","s","e"," ","t","h","i","s"," ","s","k","i","l","l",".",".",".",
      "\n","\n","#","#"," ","N","o","t","e","s","\n","A","d","d"," ","a","n",
      "y"," ","a","d","d","i","t","i","o","n","a","l"," ","n","o","t","e","s",
      " ","o","r"," ","c","o","n","s","i","d","e","r","a","t","i","o","n","s",
      " ","h","e","r","e",".",".",".","\n">>


\* ${v} in a template literal: ToString(v) of the values in use.
ToStr(v) ==
    CASE v.t = "string"    -> v.s
      [] v.t = "undefined" -> <<"u","n","d","e","f","i","n","e","d">>
      [] v.t = "null"      -> <<"n","u","l","l">>

Alphabet ==
    <<"a","b","c","d","e","f","g","h","i","j","k","l","m",
      "n","o","p","q","r","s","t","u","v","w","x","y","z">>
AlphabetUpper ==
    <<"A","B","C","D","E","F","G","H","I","J","K","L","M",
      "N","O","P","Q","R","S","T","U","V","W","X","Y","Z">>

\* String.prototype.toUpperCase on a string of ASCII characters.
ToUpperCase(s) ==
    [i \in 1..Len(s) |->
        IF s[i] \in LowerCase
        THEN AlphabetUpper[CHOOSE k \in 1..Len(Alphabet) : Alphabet[k] = s[i]]
        ELSE s[i]]

\* String.prototype.charAt(0) and String.prototype.slice(1)
CharAt0(s) == IF Len(s) = 0 THEN <<>> ELSE <<s[1]>>
Slice1(s)  == IF Len(s) = 0 THEN <<>> ELSE SubSeq(s, 2, Len(s))

\* const { description = `A skill for ${name} functionality.` } = metadata:
\* a destructuring default applies when the property is undefined (absent
\* or set to undefined), and to nothing else.
EffectiveDescription(metadata) ==
    IF metadata.description.t = "undefined"
    THEN Str(DefaultDescriptionPrefix \o ToStr(metadata.name)
                \o DefaultDescriptionSuffix)
    ELSE metadata.description

\* `---\nname: ${name}\ndescription: ${description}\n`
FrontmatterHeadNoDescription(name, description) ==
    Dashes \o <<"\n">> \o KwName \o ToStr(name) \o <<"\n">>
        \o (IF Truthy(description)
            THEN KwDescription \o ToStr(description) \o <<"\n">>
            ELSE <<>>)

FrontmatterHead(name, description) ==
    Dashes \o <<"\n">> \o KwName \o ToStr(name) \o <<"\n">>
        \o KwDescription \o ToStr(description) \o <<"\n">>

\* if (value) { frontmatter += `<key>: ${value}\n`; }
ScalarLine(kw, value) ==
    IF Truthy(value) THEN kw \o ToStr(value) \o <<"\n">> ELSE <<>>

\* tags.forEach(tag => { frontmatter += `  - ${tag}\n`; })
RECURSIVE TagItems(_)
TagItems(items) ==
    IF items = <<>> THEN <<>>
    ELSE KwTagItem \o Head(items) \o <<"\n">> \o TagItems(Tail(items))

\* The tag items with the repeated tags left out.
RECURSIVE TagItemsDeduplicated(_)
TagItemsDeduplicated(items) ==
    IF items = <<>> THEN <<>>
    ELSE LET rest == SelectSeq(Tail(items), LAMBDA x : x # Head(items))
         IN  KwTagItem \o Head(items) \o <<"\n">> \o TagItemsDeduplicated(rest)

\* if (tags && tags.length > 0) { frontmatter += `tags:\n`; tags.forEach(...) }
TagsBlockDeduplicated(tags) ==
    IF Truthy(tags) /\ Len(tags.items) > 0
    THEN KwTags \o <<"\n">> \o TagItemsDeduplicated(tags.items)
    ELSE <<>>

TagsBlock(tags) ==
    IF Truthy(tags) /\ Len(tags.items) > 0
    THEN KwTags \o <<"\n">> \o TagItems(tags.items)
    ELSE <<>>

\* The frontmatter with the license line before the tags block.
FrontmatterLicenseFirst(metadata) ==
    FrontmatterHead(metadata.name, EffectiveDescription(metadata))
        \o ScalarLine(KwAuthor, metadata.author)
        \o ScalarLine(KwVersion, metadata.version)
        \o ScalarLine(KwLicense, metadata.license)
        \o TagsBlock(metadata.tags)
        \o Dashes

\* The YAML frontmatter: head, then author, version, tags and license, each
\* only when its value is truthy, then the closing '---'.
Frontmatter(metadata) ==
    FrontmatterHead(metadata.name, EffectiveDescription(metadata))
        \o ScalarLine(KwAuthor, metadata.author)
        \o ScalarLine(KwVersion, metadata.version)
        \o TagsBlock(metadata.tags)
        \o ScalarLine(KwLicense, metadata.license)
        \o Dashes

\* A title with every character of the name in upper case.
TitleNameAllUpperCase(name) == ToUpperCase(name)

\* const titleName = name.charAt(0).toUpperCase() + name.slice(1);
TitleName(name) == ToUpperCase(CharAt0(name)) \o Slice1(name)

\* `${frontmatter}\n\n# ${titleName} Skill\n\n## When to use this skill ...`
generateSkillMdContent(metadata) ==
    Frontmatter(metadata) \o <<"\n", "\n">>
        \o TitlePrefix \o TitleName(metadata.name.s) \o TitleSuffix
        \o SkillMdBody

(***************************************************************************)
(* lib/utils.js: createReadme                                              *)
(***************************************************************************)
\* The literal text of the README template.  The backquote and the three
\* box-drawing characters of the tree diagram cannot be written in a string
\* here and stand by their code points (U+0060, U+251C, U+2500, U+2514),
\* each of them one character.

ReadmeTitlePrefix ==
    <<"#"," ">>

ReadmeTitleSuffix ==
    <<" ","S","k","i","l","l">>

ReadmeIntro ==
    <<"\n","\n","T","h","i","s"," ","i","s"," ","a","n"," ","A","g","e","n",
      "t"," ","S","k","i","l","l"," ","c","r","e","a","t","e","d"," ","w","i",
      "t","h"," ","U+0060","c","r","e","a","t","e","-","s","k","i","l","l","s","U+0060",
      ".","\n","\n","#","#"," ","S","t","r","u","c","t","u","r","e","\n","\n",
      "U+0060","U+0060","U+0060","\n">>

ReadmeRest ==
    <<"/","\n","U+251C","U+2500","U+2500"," ","S","K","I","L","L",".","m","d",
      " "," "," "," "," "," "," "," "," "," ","#"," ","R","e","q","u","i","r",
      "e","d",":"," ","M","a","i","n"," ","s","k","i","l","l"," ","i","n","s",
      "t","r","u","c","t","i","o","n","s"," ","a","n","d"," ","m","e","t","a",
      "d","a","t","a","\n","U+251C","U+2500","U+2500"," ","s","c","r","i","p",
      "t","s","/"," "," "," "," "," "," "," "," "," "," ","#"," ","O","p","t",
      "i","o","n","a","l",":"," ","E","x","e","c","u","t","a","b","l","e"," ",
      "s","c","r","i","p","t","s","\n","U+251C","U+2500","U+2500"," ","r","e",
      "f","e","r","e","n","c","e","s","/"," "," "," "," "," "," "," ","#"," ",
      "O","p","t","i","o","n","a","l",":"," ","D","o","c","u","m","e","n","t",
      "a","t","i","o","n"," ","a","n","d"," ","r","e","f","e","r","e","n","c",
      "e","s","\n","U+251C","U+2500","U+2500"," ","a","s","s","e","t","s","/",
      " "," "," "," "," "," "," "," "," "," "," ","#"," ","O","p","t","i","o",
      "n","a","l",":"," ","T","e","m","p","l","a","t","e","s"," ","a","n","d",
      " ","r","e","s","o","u","r","c","e","s","\n","U+2514","U+2500","U+2500",
      " ","R","E","A","D","M","E",".","m","d"," "," "," "," "," "," "," "," ",
      " ","#"," ","T","h","i","s"," ","f","i","l","e","\n","U+0060","U+0060","U+0060","\n",
      "\n","#","#"," ","U","s","a","g","e","\n","\n","1","."," ","E","d","i",
      "t"," ","U+0060","S","K","I","L","L",".","m","d","U+0060"," ","t","o"," ","a","d",
      "d"," ","y","o","u","r"," ","s","k","i","l","l","'","s"," ","i","n","s",
      "t","r","u","c","t","i","o","n","s","\n","2","."," ","A","d","d"," ",
      "a","n","y"," ","s","c","r","i","p","t","s"," ","t","o"," ","t","h","e",
      " ","U+0060","s","c","r","i","p","t","s","/","U+0060"," ","d","i","r","e","c","t",
      "o","r","y","\n","3","."," ","A","d","d"," ","r","e","f","e","r","e",
      "n","c","e"," ","m","a","t","e","r","i","a","l","s"," ","t","o"," ","U+0060",
      "r","e","f","e","r","e","n","c","e","s","/","U+0060","\n","4","."," ","A",
      "d","d"," ","t","e","m","p","l","a","t","e","s"," ","o","r"," ","o","t",
      "h","e","r"," ","a","s","s","e","t","s"," ","t","o"," ","U+0060","a","s","s",
      "e","t","s","/","U+0060","\n","\n","#","#"," ","N","e","x","t"," ","S","t",
      "e","p","s","\n","\n","-"," ","C","u","s","t","o","m","i","z","e"," ",
      "t","h","e"," ","U+0060","d","e","s","c","r","i","p","t","i","o","n","U+0060"," ",
      "i","n"," ","S","K","I","L","L",".","m","d"," ","f","r","o","n","t","m",
      "a","t","t","e","r","\n","-"," ","A","d","d"," ","d","e","t","a","i",
      "l","e","d"," ","i","n","s","t","r","u","c","t","i","o","n","s"," ","i",
      "n"," ","t","h","e"," ","S","K","I","L","L",".","m","d"," ","b","o","d",
      "y","\n","-"," ","I","n","c","l","u","d","e"," ","e","x","a","m","p",
      "l","e","s"," ","a","n","d"," ","u","s","e"," ","c","a","s","e","s",
      "\n","-"," ","A","d","d"," ","a","n","y"," ","n","e","c","e","s","s",
      "a","r","y"," ","s","c","r","i","p","t","s"," ","o","r"," ","r","e","s",
      "o","u","r","c","e","s","\n","\n","F","o","r"," ","m","o","r","e"," ",
      "i","n","f","o","r","m","a","t","i","o","n"," ","a","b","o","u","t"," ",
      "A","g","e","n","t"," ","S","k","i","l","l","s",","," ","v","i","s","i",
      "t",":","\n","h","t","t","p","s",":","/","/","a","g","e","n","t","s",
      "k","i","l","l","s",".","i","o","\n">>

\* A README whose title carries the name as the SKILL.md title does, the
\* first character in upper case.
ReadmeContentCapitalised(skillName) ==
    ReadmeTitlePrefix \o TitleName(skillName) \o ReadmeTitleSuffix
        \o ReadmeIntro \o skillName \o ReadmeRest

\* The template of createReadme: '# ${skillName} Skill ... ${skillName}/ ...'
ReadmeContent(skillName) ==
    ReadmeTitlePrefix \o skillName \o ReadmeTitleSuffix
        \o ReadmeIntro \o skillName \o ReadmeRest

(***************************************************************************)
(* The filesystem under the working directory                              *)
(*                                                                         *)
(* A path is the sequence of its segments below process.cwd(); the         *)
(* filesystem maps each existing path to a directory or to a file with its *)
(* data.  The working directory itself (the empty path) always exists.     *)
(***************************************************************************)
ArgHelp ==
    <<"-","-","h","e","l","p">>
ArgH ==
    <<"-","h">>
ArgVersion ==
    <<"-","-","v","e","r","s","i","o","n">>
ArgV ==
    <<"-","v">>
ArgDescription ==
    <<"-","-","d","e","s","c","r","i","p","t","i","o","n">>
ArgD ==
    <<"-","d">>
ArgAuthor ==
    <<"-","-","a","u","t","h","o","r">>
ArgVersionFlag ==
    <<"-","-","v","e","r","s","i","o","n","-","f","l","a","g">>
ArgTags ==
    <<"-","-","t","a","g","s">>
ArgLicense ==
    <<"-","-","l","i","c","e","n","s","e">>
DirScripts ==
    <<"s","c","r","i","p","t","s">>
DirReferences ==
    <<"r","e","f","e","r","e","n","c","e","s">>
DirAssets ==
    <<"a","s","s","e","t","s">>
FileGitkeep ==
    <<".","g","i","t","k","e","e","p">>
FileSkillMd ==
    <<"S","K","I","L","L",".","m","d">>
FileReadme ==
    <<"R","E","A","D","M","E",".","m","d">>

DirEntry       == [kind |-> "dir"]
FileEntry(d)   == [kind |-> "file", data |-> d]

\* path.join(base, segment), for a segment without separators or dots: every
\* name that reaches it has passed validateSkillName.
PathJoin(base, segment) == Append(base, segment)

Parent(p)   == SubSeq(p, 1, Len(p) - 1)
Prefixes(p) == {SubSeq(p, 1, k) : k \in 1..Len(p)}

\* fs.existsSync
ExistsSync(files, p) == p = <<>> \/ p \in DOMAIN files

IsDirectory(files, p) == p = <<>> \/ (p \in DOMAIN files /\ files[p].kind = "dir")

\* fs.mkdirSync(p, { recursive: true }) throws when p or one of its
\* ancestors exists and is a file (EEXIST, ENOTDIR); an existing directory
\* at p is not an error.
MkdirSyncThrows(files, p) ==
    \E q \in Prefixes(p) : q \in DOMAIN files /\ files[q].kind = "file"

\* fs.mkdirSync(p, { recursive: true }): creates p and its missing ancestors
\* and leaves what exists as it is.
MkdirSync(files, p) ==
    [q \in DOMAIN files \cup Prefixes(p) |->
        IF q \in DOMAIN files THEN files[q] ELSE DirEntry]

\* fs.writeFileSync(p, data) throws when the parent is no directory (ENOENT,
\* ENOTDIR) or p is a directory (EISDIR).
WriteFileSyncThrows(files, p) ==
    \/ ~IsDirectory(files, Parent(p))
    \/ (p \in DOMAIN files /\ files[p].kind = "dir")

\* fs.writeFileSync(p, data): creates the file or replaces its data.
WriteFileSync(files, p, data) ==
    [q \in DOMAIN files \cup {p} |-> IF q = p THEN FileEntry(data) ELSE files[q]]

\* A path check that takes an existing directory for a free path and only
\* refuses a regular file.
ValidatePathAvailableIgnoringDirectories(files, targetPath) ==
    ~(ExistsSync(files, targetPath) /\ ~IsDirectory(files, targetPath))

\* validatePathAvailable(targetPath): !fs.existsSync(targetPath), whatever
\* is there.
validatePathAvailable(files, targetPath) == ~ExistsSync(files, targetPath)

\* The subdirectories in the opposite order.
DirectoriesReversed == <<DirAssets, DirReferences, DirScripts>>

\* const directories = ['scripts', 'references', 'assets'];
Directories == <<DirScripts, DirReferences, DirAssets>>

(***************************************************************************)
(* bin/create-skills.js: the command line                                  *)
(***************************************************************************)
\* String.prototype.split(c), for a one-character separator.
RECURSIVE Split(_, _)
Split(s, c) ==
    LET at == {i \in 1..Len(s) : s[i] = c}
    IN  IF at = {} THEN <<s>>
        ELSE LET p == CHOOSE i \in at : \A j \in at : i <= j
             IN  <<SubSeq(s, 1, p - 1)>> \o Split(SubSeq(s, p + 1, Len(s)), c)

\* A split and trim that keeps the empty pieces.
ParseTagsKeepingEmpty(tagsStr) ==
    [i \in 1..Len(Split(tagsStr, ",")) |-> Trim(Split(tagsStr, ",")[i])]

\* tagsStr.split(',').map(t => t.trim()).filter(t => t)
ParseTags(tagsStr) ==
    SelectSeq([i \in 1..Len(Split(tagsStr, ",")) |-> Trim(Split(tagsStr, ",")[i])],
              LAMBDA t : Len(t) > 0)

\* A test of the first argument only.
IncludesAtFront(list, x) == Len(list) >= 1 /\ list[1] = x

\* args.includes(x)
Includes(list, x) == \E i \in 1..Len(list) : list[i] = x

\* args[++i] || '': the argument after the flag at position i, '' when there
\* is none.
ValueAfter(list, i) == IF i + 1 <= Len(list) THEN list[i + 1] ELSE <<>>

\* The values of the option flags before any argument is read.
NoOptions ==
    [description |-> <<>>, author |-> <<>>, version |-> <<>>,
     tags |-> <<>>, license |-> <<>>]

\* for (let i = 1; i < args.length; i++) { ... }: the loop over the
\* arguments after the first, i counted from 1 here as in the source from 0;
\* a flag takes the argument after it as its value and skips it.
RECURSIVE ParseOptions(_, _, _)
ParseOptions(list, i, opts) ==
    IF i > Len(list) THEN opts
    ELSE IF list[i] = ArgDescription \/ list[i] = ArgD
         THEN ParseOptions(list, i + 2,
                           [opts EXCEPT !.description = ValueAfter(list, i)])
    ELSE IF list[i] = ArgAuthor
         THEN ParseOptions(list, i + 2,
                           [opts EXCEPT !.author = ValueAfter(list, i)])
    ELSE IF list[i] = ArgVersionFlag
         THEN ParseOptions(list, i + 2,
                           [opts EXCEPT !.version = ValueAfter(list, i)])
    ELSE IF list[i] = ArgTags
         THEN ParseOptions(list, i + 2,
                           [opts EXCEPT !.tags = ParseTags(ValueAfter(list, i))])
    ELSE IF list[i] = ArgLicense
         THEN ParseOptions(list, i + 2,
                           [opts EXCEPT !.license = ValueAfter(list, i)])
    ELSE ParseOptions(list, i + 1, opts)

\* let skillName = args[0]: undefined when there is no argument.
FirstArg(list) == IF Len(list) >= 1 THEN Str(list[1]) ELSE Undefined

\* The metadata object of lines 201-210: name and description always, an
\* optional field only when its value is truthy.
BuildMetadata(name, desc, auth, vers, tgs, lic) ==
    [ name        |-> Str(name),
      description |-> Str(desc),
      author      |-> IF Len(auth) > 0 THEN Str(auth) ELSE Undefined,
      version     |-> IF Len(vers) > 0 THEN Str(vers) ELSE Undefined,
      tags        |-> IF Len(tgs) > 0 THEN Arr(tgs) ELSE Undefined,
      license     |-> IF Len(lic) > 0 THEN Str(lic) ELSE Undefined ]

(***************************************************************************)
(* State                                                                   *)
(***************************************************************************)
VARIABLES
    \* a direct call of a helper of lib/utils.js
    fn,             \* the helper called ("none" in a run of the tool)
    arg,            \* its argument
    returned,       \* whether the call has returned
    ret,            \* its return value
    \* a run of bin/create-skills.js
    args,           \* process.argv.slice(2)
    isInteractive,  \* process.stdin.isTTY
    files,          \* the filesystem under process.cwd()
    pc,             \* where main() stands
    skillName,      \* let skillName: undefined or a string
    description,    \* let description
    author,         \* let author
    version,        \* let version
    tags,           \* let tags
    license,        \* let license
    optionalFields, \* const optionalFields of the interactive branch
    dirIndex,       \* the directory createDirectoryStructure is at
    exitCode,       \* the exit code of the process, -1 while it runs
    report,         \* the last message printed to the console, "none" before it
    prompted,       \* the prompts shown so far, in order
    cancelled,      \* the prompts the user has cancelled so far
    rejected,       \* how often the open prompt has rejected its input
    filesAtStart,   \* the filesystem when the run started
    previous,       \* the run before this one: its name and report
    intruded        \* whether another process has created the target path

callVars == <<fn, arg, returned, ret>>
runVars  == <<args, isInteractive, files, pc, skillName, description, author,
              version, tags, license, optionalFields, dirIndex, exitCode,
              report, prompted, cancelled, rejected, filesAtStart, previous,
              intruded>>
vars     == <<callVars, runVars>>

NoFiles == [p \in {} |-> DirEntry]
NoRun   == [name |-> Undefined, report |-> "none"]

\* The variables of a run while a helper is called directly.
NoRunInProgress ==
    /\ args = <<>> /\ isInteractive = FALSE /\ files = NoFiles /\ pc = "none"
    /\ skillName = Undefined /\ description = <<>> /\ author = <<>>
    /\ version = <<>> /\ tags = <<>> /\ license = <<>>
    /\ optionalFields = <<>> /\ dirIndex = 0 /\ exitCode = -1
    /\ report = "none" /\ prompted = <<>> /\ cancelled = {} /\ rejected = 0
    /\ filesAtStart = NoFiles /\ previous = NoRun /\ intruded = FALSE

\* The variables of a direct call while the tool runs.
NoCallInProgress ==
    fn = "none" /\ arg = Undefined /\ returned = FALSE /\ ret = FALSE

(***************************************************************************)
(* Direct calls of validateSkillName, as in __tests__/utils.test.js        *)
(***************************************************************************)
MaxNameLen == 3

\* Characters of each kind the validator tells apart: letters, a digit, the
\* two allowed punctuation marks, and the rejected dot, space, separators
\* and line break.
NameChars == {"a", "Z", "7", "-", "_", ".", " ", "/", "\\", "\n"}

NameInputs ==
    {Undefined, Null, Num(0), Num(123), Obj, Arr(<<>>)}
        \cup {Str(s) : s \in StringsUpTo(NameChars, MaxNameLen)}

InitValidate ==
    /\ fn = "validateSkillName"
    /\ arg \in NameInputs
    /\ returned = FALSE
    /\ ret = FALSE
    /\ NoRunInProgress

CallValidateSkillName ==
    /\ fn = "validateSkillName"
    /\ ~returned
    /\ returned' = TRUE
    /\ ret' = validateSkillName(arg)
    /\ UNCHANGED <<fn, arg, runVars>>

NextValidate == CallValidateSkillName

SpecValidate == InitValidate /\ [][NextValidate]_vars

\* What the claims call a letter, digit, hyphen or underscore.
AllowedChar(c) == c \in LowerCase \cup UpperCase \cup Digits \/ c = "-" \/ c = "_"

AllAllowed(s) == \A i \in 1..Len(s) : AllowedChar(s[i])

\* C1: validateSkillName(name) returns true exactly when name is a string of
\* length >= 1 whose every character is a letter, digit, hyphen or
\* underscore and whose first character is neither '.' nor '-'; every other
\* input (null, undefined, numbers, objects, arrays, '', white space) gives
\* false.
C1_ValidateSkillNameExact ==
    (fn = "validateSkillName" /\ returned) =>
        (ret <=> ( /\ IsString(arg)
                   /\ Len(arg.s) >= 1
                   /\ AllAllowed(arg.s)
                   /\ arg.s[1] \notin {".", "-"} ))

\* C1 witness: a name of full length with a hyphen and an underscore inside
\* has been accepted.
C1_Witness ==
    /\ fn = "validateSkillName" /\ returned /\ ret
    /\ IsString(arg) /\ Len(arg.s) = MaxNameLen
    /\ \E i, j \in 1..Len(arg.s) : arg.s[i] = "-" /\ arg.s[j] = "_"

\* C2 as stated: every string matching ^[a-zA-Z0-9_-][a-zA-Z0-9_-]*$ (a
\* hyphen allowed in any position, the first included) is accepted.
C2_Original ==
    (fn = "validateSkillName" /\ returned /\ IsString(arg)
        /\ Len(arg.s) >= 1 /\ AllAllowed(arg.s)) => ret

\* C2 amended: every string matching ^[a-zA-Z0-9_][a-zA-Z0-9_-]*$ (one or
\* more allowed characters, the first of them not a hyphen) is accepted.
C2_AcceptsWellFormedNames ==
    (fn = "validateSkillName" /\ returned /\ IsString(arg)
        /\ Len(arg.s) >= 1 /\ AllAllowed(arg.s) /\ arg.s[1] # "-") => ret

\* C2 witness: a name that starts with an underscore and holds a hyphen
\* later on has been accepted.
C2_Witness ==
    /\ fn = "validateSkillName" /\ returned /\ ret
    /\ IsString(arg) /\ Len(arg.s) >= 2
    /\ arg.s[1] = "_" /\ arg.s[2] = "-"

(***************************************************************************)
(* Direct calls of generateSkillMdContent, as in __tests__/utils.test.js   *)
(***************************************************************************)
MaxValueLen == 2
MaxTags == 2

\* The characters of the field values: an ordinary character and a line
\* break.
ValueChars == {"x", "\n"}

\* Values that carry a line break followed by the text of a frontmatter key.
KeyTexts == {KwDescription, KwAuthor, KwVersion, KwTags, KwTagItem, KwLicense}
MultiLineKeyValues == {<<"x", "\n">> \o k \o <<"y">> : k \in KeyTexts}

TextValues == StringsUpTo(ValueChars, MaxValueLen) \cup MultiLineKeyValues

RenderNames == {<<"s","k">>, <<"M","y","-","1">>, <<"a","\n","b">>}

\* The metadata objects built around one text value p: every field is
\* absent (undefined), empty or p; the description may also be null.
MetadataInputs(p) ==
    [ name        : {Str(n) : n \in RenderNames},
      description : {Undefined, Null, Str(<<>>), Str(p)},
      author      : {Undefined, Str(<<>>), Str(p)},
      version     : {Undefined, Str(<<>>), Str(p)},
      tags        : {Undefined} \cup
                    {Arr(ts) : ts \in StringsUpTo({p, <<"t">>}, MaxTags)},
      license     : {Undefined, Str(<<>>), Str(p)} ]

InitRender ==
    /\ fn = "generateSkillMdContent"
    /\ \E p \in TextValues : arg \in MetadataInputs(p)
    /\ returned = FALSE
    /\ ret = <<>>
    /\ NoRunInProgress

CallGenerateSkillMdContent ==
    /\ fn = "generateSkillMdContent"
    /\ ~returned
    /\ returned' = TRUE
    /\ ret' = generateSkillMdContent(arg)
    /\ UNCHANGED <<fn, arg, runVars>>

NextRender == CallGenerateSkillMdContent

SpecRender == InitRender /\ [][NextRender]_vars

\* The lines of a text: the pieces between its line breaks.
RECURSIVE SplitLines(_)
SplitLines(s) ==
    LET nl == {i \in 1..Len(s) : s[i] = "\n"}
    IN  IF nl = {} THEN <<s>>
        ELSE LET p == CHOOSE i \in nl : \A j \in nl : i <= j
             IN  <<SubSeq(s, 1, p - 1)>> \o SplitLines(SubSeq(s, p + 1, Len(s)))

\* The positions of the lines of ls that start with the text p.
LinesStarting(ls, p) == {k \in 1..Len(ls) : StartsWith(ls[k], p)}

HasLineBreak(s) == \E i \in 1..Len(s) : s[i] = "\n"

\* The text 'description:' a description line starts with.
DescriptionKey == SubSeq(KwDescription, 1, Len(KwDescription) - 1)

NonEmptyString(v) == v.t = "string" /\ Len(v.s) >= 1
NonEmptyTags(v)   == v.t = "array" /\ Len(v.items) >= 1

\* No value of the metadata m holds a line break.
SingleLineValues(m) ==
    /\ ~HasLineBreak(m.name.s)
    /\ \A f \in {"description", "author", "version", "license"} :
          m[f].t = "string" => ~HasLineBreak(m[f].s)
    /\ m.tags.t = "array" =>
          \A i \in 1..Len(m.tags.items) : ~HasLineBreak(m.tags.items[i])

Rendered == fn = "generateSkillMdContent" /\ returned

\* C7: the description line carries metadata.description when that value is
\* non-empty, and 'A skill for <name> functionality.' in every other case
\* (absent, undefined, null, ''): the output starts with
\* '---', 'name: <name>', 'description: <that text>'.
C7_Original ==
    Rendered =>
        LET text == IF NonEmptyString(arg.description)
                    THEN arg.description.s
                    ELSE DefaultDescriptionPrefix \o arg.name.s
                            \o DefaultDescriptionSuffix
        IN  StartsWith(ret, Dashes \o <<"\n">> \o KwName \o arg.name.s
                            \o <<"\n">> \o KwDescription \o text \o <<"\n">>)

\* The optional-field lines of the output ls for the metadata m: a field has
\* a line exactly when its value is non-empty, at most one, after the
\* description line and in the order author, version, tags, license.
OptionalFieldLines(m, ls) ==
    LET D == LinesStarting(ls, DescriptionKey)
        A == LinesStarting(ls, KwAuthor)
        V == LinesStarting(ls, KwVersion)
        T == {k \in 1..Len(ls) : ls[k] = KwTags}
        L == LinesStarting(ls, KwLicense)
    IN  /\ Cardinality(A) = IF NonEmptyString(m.author) THEN 1 ELSE 0
        /\ Cardinality(V) = IF NonEmptyString(m.version) THEN 1 ELSE 0
        /\ Cardinality(T) = IF NonEmptyTags(m.tags) THEN 1 ELSE 0
        /\ Cardinality(L) = IF NonEmptyString(m.license) THEN 1 ELSE 0
        /\ \A d \in D : \A k \in A \cup V \cup T \cup L : d < k
        /\ \A a \in A : \A k \in V \cup T \cup L : a < k
        /\ \A v \in V : \A k \in T \cup L : v < k
        /\ \A t \in T : \A k \in L : t < k

\* C8 as stated: for every metadata, a line for author, version, tags or
\* license is present if and only if that field is non-empty, each present
\* field appears once, after the description line, in the order author,
\* version, tags, license.
C8_Original == Rendered => OptionalFieldLines(arg, SplitLines(ret))

\* C8 amended: the same, for metadata none of whose values (name,
\* description, author, version, license, each tag) holds a line break.
C8_OptionalFieldsFilteredInOrder ==
    (Rendered /\ SingleLineValues(arg)) =>
        OptionalFieldLines(arg, SplitLines(ret))

\* C8 witness: a proper subset of the fields is supplied (no author;
\* version, tags and license given) and the text has been rendered.
C8_Witness ==
    /\ Rendered /\ SingleLineValues(arg)
    /\ arg.author.t = "undefined"
    /\ NonEmptyString(arg.version) /\ NonEmptyTags(arg.tags)
    /\ NonEmptyString(arg.license)

\* The tags block of the output ls for the metadata m: for a non-empty
\* sequence one 'tags:' line, right after it one '  - <tag>' line per
\* element in order, and no other item line; else neither.
TagsBlockLines(m, ls) ==
    LET T     == {k \in 1..Len(ls) : ls[k] = KwTags}
        Items == LinesStarting(ls, KwTagItem)
    IN  IF NonEmptyTags(m.tags)
        THEN /\ Cardinality(T) = 1
             /\ \A k \in T :
                   /\ k + Len(m.tags.items) <= Len(ls)
                   /\ \A i \in 1..Len(m.tags.items) :
                         ls[k + i] = KwTagItem \o m.tags.items[i]
             /\ Cardinality(Items) = Len(m.tags.items)
        ELSE T = {} /\ Items = {}

\* C9 as stated: for every non-empty tags sequence one 'tags:' line
\* immediately followed by one '  - <tag>' line per element, in order,
\* duplicates kept; for an empty sequence no 'tags:' line and no item line.
C9_Original == Rendered => TagsBlockLines(arg, SplitLines(ret))

\* C9 amended: the same, for metadata none of whose values holds a line
\* break.
C9_TagsBlockInOrder ==
    (Rendered /\ SingleLineValues(arg)) => TagsBlockLines(arg, SplitLines(ret))

\* C9 witness: a tags sequence that repeats a tag has been rendered.
C9_Witness ==
    /\ Rendered /\ SingleLineValues(arg)
    /\ arg.tags.t = "array" /\ Len(arg.tags.items) >= 2
    /\ arg.tags.items[1] = arg.tags.items[2]

\* The head of the output text for the metadata m: the text begins with the
\* line '---' and the line 'name: <name>' ('---\nname: <name>\n'), and one
\* line in all starts with 'description:'.
HeadLines(m, text) ==
    /\ StartsWith(text, Dashes \o <<"\n">> \o KwName \o m.name.s \o <<"\n">>)
    /\ Cardinality(LinesStarting(SplitLines(text), DescriptionKey)) = 1

\* C10 as stated: for every metadata the output begins with the line '---'
\* and the line 'name: <name>' and holds exactly one line that starts with
\* 'description:'.
C10_Original == Rendered => HeadLines(arg, ret)

\* C10 amended: the same, for metadata none of whose values holds a line
\* break.
C10_HeadAndOneDescriptionLine ==
    (Rendered /\ SingleLineValues(arg)) => HeadLines(arg, ret)

\* C10 witness: an empty description with all four optional fields given
\* has been rendered.
C10_Witness ==
    /\ Rendered /\ SingleLineValues(arg)
    /\ arg.description.t = "string" /\ arg.description.s = <<>>
    /\ NonEmptyString(arg.author) /\ NonEmptyString(arg.version)
    /\ NonEmptyTags(arg.tags) /\ NonEmptyString(arg.license)

(***************************************************************************)
(* bin/create-skills.js: one run of main()                                 *)
(***************************************************************************)
MaxRejected == 2

\* The texts of the command lines and answers.
NameSk ==
    <<"s","k">>
NameNu ==
    <<"n","u">>
NameBad ==
    <<"a"," ","b">>
TextD ==
    <<"D","o"," ","i","t">>
TextAl ==
    <<"A","l">>
Text10 ==
    <<"1",".","0">>
TextTags ==
    <<"t",","," ",",","u">>
TextNoTags ==
    <<" ",",">>
TextMIT ==
    <<"M","I","T">>
TextOld ==
    <<"o","l","d">>
TextTheirs ==
    <<"t","h","e","i","r","s">>

\* The command lines: an optional first argument (a valid name, a name with
\* a space), then each option flag absent or present, a flag also without
\* its value or with a value that holds no tag, then an optional help or
\* version flag.
ArgLists ==
    { pos \o d \o a \o v \o t \o l \o h :
        pos \in {<<>>, <<NameSk>>, <<NameBad>>},
        d   \in {<<>>, <<ArgD, TextD>>, <<ArgDescription>>},
        a   \in {<<>>, <<ArgAuthor, TextAl>>},
        v   \in {<<>>, <<ArgVersionFlag, Text10>>},
        t   \in {<<>>, <<ArgTags, TextTags>>, <<ArgTags, TextNoTags>>},
        l   \in {<<>>, <<ArgLicense, TextMIT>>},
        h   \in {<<>>, <<ArgHelp>>, <<ArgH>>, <<ArgVersion>>, <<ArgV>>} }

\* What the user may type at the prompts.
NameAnswers        == {NameSk, NameNu, NameBad, <<>>}
DescriptionAnswers == {TextD, <<" ">>, <<>>}
AuthorAnswers      == {TextAl, <<>>}
VersionAnswers     == {Text10, <<>>}
TagsAnswers        == {TextTags, <<>>}
LicenseAnswers     == {TextMIT, <<>>}

\* The filesystem a run may find: nothing, a directory 'sk' with a SKILL.md
\* of its own, or a regular file named 'sk'.
InitialFiles ==
    { NoFiles,
      WriteFileSync(MkdirSync(NoFiles, <<NameSk>>), <<NameSk, FileSkillMd>>, TextOld),
      WriteFileSync(NoFiles, <<NameSk>>, TextOld) }

\* const optionalFields = {};
NoResponses ==
    [author |-> Undefined, version |-> Undefined, tags |-> Undefined,
     license |-> Undefined]

\* The state of main() at its first line, for the command line list.
StartOfRun(list, tty, disk) ==
    /\ args = list /\ isInteractive = tty /\ files = disk
    /\ pc = "start"
    /\ skillName = Undefined /\ description = <<>> /\ author = <<>>
    /\ version = <<>> /\ tags = <<>> /\ license = <<>>
    /\ optionalFields = NoResponses /\ dirIndex = 0 /\ exitCode = -1
    /\ report = "none" /\ prompted = <<>> /\ cancelled = {} /\ rejected = 0
    /\ filesAtStart = disk /\ intruded = FALSE

Init ==
    /\ NoCallInProgress
    /\ previous = NoRun
    /\ \E list \in ArgLists, tty \in BOOLEAN, disk \in InitialFiles :
          StartOfRun(list, tty, disk)

\* const targetPath = path.join(targetDir, skillName);
TargetPath == PathJoin(<<>>, skillName.s)

\* process.exit(code) after the message msg.
Exit(code, msg) ==
    /\ pc' = "exit" /\ exitCode' = code /\ report' = msg

\* The prompt of each position of main() that waits for the user.
PromptOf ==
    [promptName |-> "name", promptDescription |-> "description",
     promptAuthor |-> "author", promptVersion |-> "version",
     promptTags |-> "tags", promptLicense |-> "license"]

\* main() moves on to the position next; when that is a prompt, the prompt
\* is shown.
GoTo(next) ==
    /\ pc' = next
    /\ prompted' = IF next \in DOMAIN PromptOf
                   THEN Append(prompted, PromptOf[next]) ELSE prompted

\* Lines 146-183: the optional fields are asked for in the order author,
\* version, tags, license, each only if (!value); after the last of them
\* comes the update of lines 186-189.
OptionalPrompts == <<"promptAuthor", "promptVersion", "promptTags", "promptLicense">>

\* Every optional prompt is due, whatever the flags have supplied.
MissingOrSupplied(position) == position \in DOMAIN PromptOf

Missing(position) ==
    CASE position = "promptAuthor"  -> Len(author) = 0
      [] position = "promptVersion" -> Len(version) = 0
      [] position = "promptTags"    -> Len(tags) = 0
      [] position = "promptLicense" -> Len(license) = 0

\* The first optional prompt that is due among all but the k-th.
NextOptionalAmongAll(k) ==
    LET due == {i \in 1..Len(OptionalPrompts) :
                    i # k /\ Missing(OptionalPrompts[i])}
    IN  IF due = {} THEN "update"
        ELSE OptionalPrompts[CHOOSE i \in due : \A j \in due : i <= j]

\* The first optional prompt after the k-th that is due.
NextOptional(k) ==
    LET due == {i \in (k + 1)..Len(OptionalPrompts) : Missing(OptionalPrompts[i])}
    IN  IF due = {} THEN "update"
        ELSE OptionalPrompts[CHOOSE i \in due : \A j \in due : i <= j]

envVars   == <<args, isInteractive, filesAtStart, previous>>
fieldVars == <<skillName, description, author, version, tags, license>>

\* Lines 20-24: --help or -h anywhere on the command line.
PrintHelp ==
    /\ pc = "start"
    /\ Includes(args, ArgHelp) \/ Includes(args, ArgH)
    /\ Exit(0, "help")
    /\ UNCHANGED <<callVars, envVars, fieldVars, optionalFields, files,
                   dirIndex, prompted, cancelled, rejected, intruded>>

\* Lines 26-29: --version or -v anywhere on the command line.
PrintVersion ==
    /\ pc = "start"
    /\ ~(Includes(args, ArgHelp) \/ Includes(args, ArgH))
    /\ Includes(args, ArgVersion) \/ Includes(args, ArgV)
    /\ Exit(0, "version")
    /\ UNCHANGED <<callVars, envVars, fieldVars, optionalFields, files,
                   dirIndex, prompted, cancelled, rejected, intruded>>

\* Lines 31-61: the first argument is the name, the flags after it are read,
\* and the name prompt is shown if (!skillName && isInteractive).
ParseArgs ==
    /\ pc = "start"
    /\ ~(Includes(args, ArgHelp) \/ Includes(args, ArgH))
    /\ ~(Includes(args, ArgVersion) \/ Includes(args, ArgV))
    /\ LET o == ParseOptions(args, 2, NoOptions)
       IN  /\ skillName' = FirstArg(args)
           /\ description' = o.description
           /\ author' = o.author
           /\ version' = o.version
           /\ tags' = o.tags
           /\ license' = o.license
    /\ GoTo(IF ~Truthy(FirstArg(args)) /\ isInteractive
            THEN "promptName" ELSE "validateName")
    /\ UNCHANGED <<callVars, envVars, optionalFields, files, dirIndex,
                   exitCode, report, cancelled, rejected, intruded>>

\* A validate callback of the name prompt that only asks for some text.
NamePromptValidateNonEmpty(value) ==
    IF Len(value) = 0 \/ Len(Trim(value)) = 0 THEN FALSE ELSE TRUE

\* The validate callback of the name prompt (lines 67-75): true when the
\* input is accepted.
NamePromptValidate(value) ==
    IF Len(value) = 0 \/ Len(Trim(value)) = 0 THEN FALSE
    ELSE IF ~validateSkillName(Str(value)) THEN FALSE
    ELSE TRUE

\* The user submits a name the prompt accepts (lines 78-83).
NameAccepted ==
    /\ pc = "promptName"
    /\ \E value \in NameAnswers :
          /\ NamePromptValidate(value)
          /\ skillName' = Str(value)
    /\ rejected' = 0
    /\ GoTo("validateName")
    /\ UNCHANGED <<callVars, envVars, description, author, version, tags,
                   license, optionalFields, files, dirIndex, exitCode, report,
                   cancelled, intruded>>

\* The user submits a name the prompt rejects: the prompt stays open.
NameRejected ==
    /\ pc = "promptName"
    /\ rejected < MaxRejected
    /\ \E value \in NameAnswers : ~NamePromptValidate(value)
    /\ rejected' = rejected + 1
    /\ UNCHANGED <<callVars, envVars, fieldVars, optionalFields, files, pc,
                   dirIndex, exitCode, report, prompted, cancelled, intruded>>

\* The user aborts the name prompt: the response has no skillName
\* (lines 78-81).
NameCancelled ==
    /\ pc = "promptName"
    /\ cancelled' = cancelled \cup {"name"}
    /\ rejected' = 0
    /\ Exit(0, "cancelled")
    /\ UNCHANGED <<callVars, envVars, fieldVars, optionalFields, files,
                   dirIndex, prompted, intruded>>

\* Lines 86-94.
InvalidName ==
    /\ pc = "validateName"
    /\ Truthy(skillName) /\ ~validateSkillName(skillName)
    /\ Exit(1, "invalidName")
    /\ UNCHANGED <<callVars, envVars, fieldVars, optionalFields, files,
                   dirIndex, prompted, cancelled, rejected, intruded>>

\* Lines 96-103.
MissingName ==
    /\ pc = "validateName"
    /\ ~(Truthy(skillName) /\ ~validateSkillName(skillName))
    /\ ~Truthy(skillName) /\ ~isInteractive
    /\ Exit(1, "missingName")
    /\ UNCHANGED <<callVars, envVars, fieldVars, optionalFields, files,
                   dirIndex, prompted, cancelled, rejected, intruded>>

\* The name has passed lines 86-103.
NameChecked ==
    /\ pc = "validateName"
    /\ ~(Truthy(skillName) /\ ~validateSkillName(skillName))
    /\ ~(~Truthy(skillName) /\ ~isInteractive)
    /\ GoTo("checkPath")
    /\ UNCHANGED <<callVars, envVars, fieldVars, optionalFields, files,
                   dirIndex, exitCode, report, cancelled, rejected, intruded>>

\* Lines 105-113: the target path exists.
PathExists ==
    /\ pc = "checkPath"
    /\ ~validatePathAvailable(files, TargetPath)
    /\ Exit(1, "pathExists")
    /\ UNCHANGED <<callVars, envVars, fieldVars, optionalFields, files,
                   dirIndex, prompted, cancelled, rejected, intruded>>

\* A run that goes on from the path check whatever is at the target path.
PathCheckSkipped ==
    /\ pc = "checkPath"
    /\ GoTo(IF Len(description) = 0 /\ isInteractive
            THEN "promptDescription" ELSE "checkDescription")
    /\ UNCHANGED <<callVars, envVars, fieldVars, optionalFields, files,
                   dirIndex, exitCode, report, cancelled, rejected, intruded>>

\* A path check that creates the skill directory as soon as the path is
\* found free, ahead of the description check.
PathAvailableCreating ==
    /\ pc = "checkPath"
    /\ validatePathAvailable(files, TargetPath)
    /\ files' = MkdirSync(files, TargetPath)
    /\ GoTo(IF Len(description) = 0 /\ isInteractive
            THEN "promptDescription" ELSE "checkDescription")
    /\ UNCHANGED <<callVars, envVars, fieldVars, optionalFields,
                   dirIndex, exitCode, report, cancelled, rejected, intruded>>

\* Lines 105-116: the target path is free; the description prompt is shown
\* if (!description && isInteractive).
PathAvailable ==
    /\ pc = "checkPath"
    /\ validatePathAvailable(files, TargetPath)
    /\ GoTo(IF Len(description) = 0 /\ isInteractive
            THEN "promptDescription" ELSE "checkDescription")
    /\ UNCHANGED <<callVars, envVars, fieldVars, optionalFields, files,
                   dirIndex, exitCode, report, cancelled, rejected, intruded>>

\* The validate callback of the description prompt (lines 121-126).
DescriptionPromptValidate(value) ==
    IF Len(value) = 0 \/ Len(Trim(value)) = 0 THEN FALSE ELSE TRUE

\* The user submits a description the prompt accepts (lines 129-134).
DescriptionAccepted ==
    /\ pc = "promptDescription"
    /\ \E value \in DescriptionAnswers :
          /\ DescriptionPromptValidate(value)
          /\ description' = value
    /\ rejected' = 0
    /\ GoTo("checkDescription")
    /\ UNCHANGED <<callVars, envVars, skillName, author, version, tags,
                   license, optionalFields, files, dirIndex, exitCode, report,
                   cancelled, intruded>>

\* The user submits a description the prompt rejects: it stays open.
DescriptionRejected ==
    /\ pc = "promptDescription"
    /\ rejected < MaxRejected
    /\ \E value \in DescriptionAnswers : ~DescriptionPromptValidate(value)
    /\ rejected' = rejected + 1
    /\ UNCHANGED <<callVars, envVars, fieldVars, optionalFields, files, pc,
                   dirIndex, exitCode, report, prompted, cancelled, intruded>>

\* The user aborts the description prompt (lines 129-132).
DescriptionCancelled ==
    /\ pc = "promptDescription"
    /\ cancelled' = cancelled \cup {"description"}
    /\ rejected' = 0
    /\ Exit(0, "cancelled")
    /\ UNCHANGED <<callVars, envVars, fieldVars, optionalFields, files,
                   dirIndex, prompted, intruded>>

\* A run without a description that goes on to the creation.
MissingDescriptionGoingOn ==
    /\ pc = "checkDescription"
    /\ Len(description) = 0 /\ ~isInteractive
    /\ GoTo("mkdir")
    /\ UNCHANGED <<callVars, envVars, fieldVars, optionalFields, files,
                   dirIndex, exitCode, report, cancelled, rejected, intruded>>

\* Lines 137-143.
MissingDescription ==
    /\ pc = "checkDescription"
    /\ Len(description) = 0 /\ ~isInteractive
    /\ Exit(1, "missingDescription")
    /\ UNCHANGED <<callVars, envVars, fieldVars, optionalFields, files,
                   dirIndex, prompted, cancelled, rejected, intruded>>

\* Lines 137-149: there is a description; an interactive run goes on to the
\* optional prompts, any other run to the creation.
DescriptionChecked ==
    /\ pc = "checkDescription"
    /\ ~(Len(description) = 0 /\ ~isInteractive)
    /\ GoTo(IF isInteractive THEN NextOptional(0) ELSE "mkdir")
    /\ UNCHANGED <<callVars, envVars, fieldVars, optionalFields, files,
                   dirIndex, exitCode, report, cancelled, rejected, intruded>>

\* What a prompt of type 'list' resolves to: the input split at the commas,
\* each piece trimmed (the empty input gives one empty piece).
ListAnswer(text) ==
    Arr([i \in 1..Len(Split(text, ",")) |-> Trim(Split(text, ",")[i])])

\* Lines 149-156: the user submits the author prompt, empty input included.
AuthorAnswered ==
    /\ pc = "promptAuthor"
    /\ \E value \in AuthorAnswers :
          optionalFields' = [optionalFields EXCEPT !.author = Str(value)]
    /\ GoTo(NextOptional(1))
    /\ UNCHANGED <<callVars, envVars, fieldVars, files, dirIndex, exitCode,
                   report, cancelled, rejected, intruded>>

\* Lines 149-156: the user aborts the author prompt; the response has no
\* author and main() goes on.
AuthorCancelled ==
    /\ pc = "promptAuthor"
    /\ optionalFields' = [optionalFields EXCEPT !.author = Undefined]
    /\ cancelled' = cancelled \cup {"author"}
    /\ GoTo(NextOptional(1))
    /\ UNCHANGED <<callVars, envVars, fieldVars, files, dirIndex, exitCode,
                   report, rejected, intruded>>

\* Lines 158-165: the user submits the version prompt, empty input included.
VersionAnswered ==
    /\ pc = "promptVersion"
    /\ \E value \in VersionAnswers :
          optionalFields' = [optionalFields EXCEPT !.version = Str(value)]
    /\ GoTo(NextOptional(2))
    /\ UNCHANGED <<callVars, envVars, fieldVars, files, dirIndex, exitCode,
                   report, cancelled, rejected, intruded>>

\* Lines 158-165: the user aborts the version prompt; the response has no
\* version and main() goes on.
VersionCancelled ==
    /\ pc = "promptVersion"
    /\ optionalFields' = [optionalFields EXCEPT !.version = Undefined]
    /\ cancelled' = cancelled \cup {"version"}
    /\ GoTo(NextOptional(2))
    /\ UNCHANGED <<callVars, envVars, fieldVars, files, dirIndex, exitCode,
                   report, rejected, intruded>>

\* Lines 167-174: the user submits the tags prompt, empty input included.
TagsAnswered ==
    /\ pc = "promptTags"
    /\ \E value \in TagsAnswers :
          optionalFields' = [optionalFields EXCEPT !.tags = ListAnswer(value)]
    /\ GoTo(NextOptional(3))
    /\ UNCHANGED <<callVars, envVars, fieldVars, files, dirIndex, exitCode,
                   report, cancelled, rejected, intruded>>

\* Lines 167-174: the user aborts the tags prompt; the response has no
\* tags and main() goes on.
TagsCancelled ==
    /\ pc = "promptTags"
    /\ optionalFields' = [optionalFields EXCEPT !.tags = Undefined]
    /\ cancelled' = cancelled \cup {"tags"}
    /\ GoTo(NextOptional(3))
    /\ UNCHANGED <<callVars, envVars, fieldVars, files, dirIndex, exitCode,
                   report, rejected, intruded>>

\* Lines 176-183: the user submits the license prompt, empty input included.
LicenseAnswered ==
    /\ pc = "promptLicense"
    /\ \E value \in LicenseAnswers :
          optionalFields' = [optionalFields EXCEPT !.license = Str(value)]
    /\ GoTo(NextOptional(4))
    /\ UNCHANGED <<callVars, envVars, fieldVars, files, dirIndex, exitCode,
                   report, cancelled, rejected, intruded>>

\* Lines 176-183: the user aborts the license prompt; the response has no
\* license and main() goes on.
LicenseCancelled ==
    /\ pc = "promptLicense"
    /\ optionalFields' = [optionalFields EXCEPT !.license = Undefined]
    /\ cancelled' = cancelled \cup {"license"}
    /\ GoTo(NextOptional(4))
    /\ UNCHANGED <<callVars, envVars, fieldVars, files, dirIndex, exitCode,
                   report, rejected, intruded>>

\* value = optionalFields.value || value, for a string and for a list.
OrElse(response, value) ==
    IF Truthy(response)
    THEN (IF response.t = "array" THEN response.items ELSE response.s)
    ELSE value

\* Lines 185-189: the responses replace the values of the flags.
UpdateWithResponses ==
    /\ pc = "update"
    /\ author' = OrElse(optionalFields.author, author)
    /\ version' = OrElse(optionalFields.version, version)
    /\ tags' = OrElse(optionalFields.tags, tags)
    /\ license' = OrElse(optionalFields.license, license)
    /\ GoTo("mkdir")
    /\ UNCHANGED <<callVars, envVars, skillName, description, optionalFields,
                   files, dirIndex, exitCode, report, cancelled, rejected,
                   intruded>>

\* Line 194: fs.mkdirSync(targetPath, { recursive: true }).
MkdirTarget ==
    /\ pc = "mkdir"
    /\ ~MkdirSyncThrows(files, TargetPath)
    /\ files' = MkdirSync(files, TargetPath)
    /\ dirIndex' = 1
    /\ GoTo("mkdirSub")
    /\ UNCHANGED <<callVars, envVars, fieldVars, optionalFields, exitCode,
                   report, cancelled, rejected, intruded>>

\* createDirectoryStructure, utils.js line 50: the directory of this turn of
\* the loop.
MkdirSubdirectory ==
    /\ pc = "mkdirSub"
    /\ LET dirPath == PathJoin(TargetPath, Directories[dirIndex])
       IN  /\ ~MkdirSyncThrows(files, dirPath)
           /\ files' = MkdirSync(files, dirPath)
    /\ GoTo("writeGitkeep")
    /\ UNCHANGED <<callVars, envVars, fieldVars, optionalFields, dirIndex,
                   exitCode, report, cancelled, rejected, intruded>>

\* createDirectoryStructure, utils.js line 53: the empty .gitkeep of this
\* turn; after the last directory comes SKILL.md.
WriteGitkeep ==
    /\ pc = "writeGitkeep"
    /\ LET keep == PathJoin(PathJoin(TargetPath, Directories[dirIndex]), FileGitkeep)
       IN  /\ ~WriteFileSyncThrows(files, keep)
           /\ files' = WriteFileSync(files, keep, <<>>)
    /\ dirIndex' = dirIndex + 1
    /\ GoTo(IF dirIndex = Len(Directories) THEN "skillMd" ELSE "mkdirSub")
    /\ UNCHANGED <<callVars, envVars, fieldVars, optionalFields, exitCode,
                   report, cancelled, rejected, intruded>>

\* Lines 200-212 and createSkillMd: the metadata is built and SKILL.md
\* written.
CreateSkillMd ==
    /\ pc = "skillMd"
    /\ LET metadata == BuildMetadata(skillName.s, description, author,
                                     version, tags, license)
           target   == PathJoin(TargetPath, FileSkillMd)
       IN  /\ ~WriteFileSyncThrows(files, target)
           /\ files' = WriteFileSync(files, target, generateSkillMdContent(metadata))
    /\ GoTo("readme")
    /\ UNCHANGED <<callVars, envVars, fieldVars, optionalFields, dirIndex,
                   exitCode, report, cancelled, rejected, intruded>>

\* Line 215 and createReadme.
CreateReadme ==
    /\ pc = "readme"
    /\ LET target == PathJoin(TargetPath, FileReadme)
       IN  /\ ~WriteFileSyncThrows(files, target)
           /\ files' = WriteFileSync(files, target, ReadmeContent(skillName.s))
    /\ GoTo("success")
    /\ UNCHANGED <<callVars, envVars, fieldVars, optionalFields, dirIndex,
                   exitCode, report, cancelled, rejected, intruded>>

\* Lines 217-224: the success message; main() returns and the process ends
\* with code 0.
ReportSuccess ==
    /\ pc = "success"
    /\ Exit(0, "success")
    /\ UNCHANGED <<callVars, envVars, fieldVars, optionalFields, files,
                   dirIndex, prompted, cancelled, rejected, intruded>>

\* The positions of main() inside the try block that call the filesystem.
FilesystemCalls == {"mkdir", "mkdirSub", "writeGitkeep", "skillMd", "readme"}

\* An error handler that starts the creation again.
FilesystemErrorRetrying ==
    /\ pc \in FilesystemCalls
    /\ pc' = "mkdir"
    /\ dirIndex' = 0
    /\ UNCHANGED <<callVars, envVars, fieldVars, optionalFields, files,
                   exitCode, report, prompted, cancelled, rejected, intruded>>

\* An error handler that removes what the run has written.
FilesystemErrorRollingBack ==
    /\ pc \in FilesystemCalls
    /\ Exit(1, "fsError")
    /\ files' = filesAtStart
    /\ UNCHANGED <<callVars, envVars, fieldVars, optionalFields,
                   dirIndex, prompted, cancelled, rejected, intruded>>

\* Lines 226-229: a call of the try block throws, for what is at its path
\* or for a reason of the environment (permissions, a full disk); the error
\* is printed and the process ends with code 1.
FilesystemError ==
    /\ pc \in FilesystemCalls
    /\ Exit(1, "fsError")
    /\ UNCHANGED <<callVars, envVars, fieldVars, optionalFields, files,
                   dirIndex, prompted, cancelled, rejected, intruded>>

Next ==
    \/ PrintHelp \/ PrintVersion \/ ParseArgs
    \/ NameAccepted \/ NameRejected \/ NameCancelled
    \/ InvalidName \/ MissingName \/ NameChecked
    \/ PathExists \/ PathAvailable
    \/ DescriptionAccepted \/ DescriptionRejected \/ DescriptionCancelled
    \/ MissingDescription \/ DescriptionChecked
    \/ AuthorAnswered \/ AuthorCancelled
    \/ VersionAnswered \/ VersionCancelled
    \/ TagsAnswered \/ TagsCancelled
    \/ LicenseAnswered \/ LicenseCancelled
    \/ UpdateWithResponses
    \/ MkdirTarget \/ MkdirSubdirectory \/ WriteGitkeep
    \/ CreateSkillMd \/ CreateReadme \/ ReportSuccess
    \/ FilesystemError

Spec == Init /\ [][Next]_vars

\* The run has ended.
Exited == pc = "exit"

\* The reports of the validation errors: no name, an invalid name, an
\* existing target path, no description.
ValidationErrors == {"missingName", "invalidName", "pathExists", "missingDescription"}

\* C3: a run that ends with a validation error (missing name, invalid name,
\* existing target path, missing description) has created no directory and
\* written no file: the filesystem at exit is the filesystem at start.
C3_NoMutationOnValidationError ==
    (Exited /\ report \in ValidationErrors) => files = filesAtStart

\* C3 witness: a run has passed the name and path checks and ended for its
\* missing description.
C3_Witness ==
    /\ Exited /\ report = "missingDescription" /\ exitCode = 1
    /\ validateSkillName(skillName)

(***************************************************************************)
(* Two runs in a row in the same directory                                 *)
(***************************************************************************)
\* The command lines of the first of two runs.
FirstRunArgLists ==
    { pos \o d \o t \o h :
        pos \in {<<>>, <<NameSk>>, <<NameBad>>},
        d   \in {<<>>, <<ArgD, TextD>>},
        t   \in {<<>>, <<ArgTags, TextTags>>},
        h   \in {<<>>, <<ArgHelp>>, <<ArgV>>} }

InitRuns ==
    /\ NoCallInProgress
    /\ previous = NoRun
    /\ \E list \in FirstRunArgLists, tty \in BOOLEAN :
          StartOfRun(list, tty, NoFiles)

\* After a run that has reported success the tool is run again for the same
\* skill, nothing removed in between: with that name as first argument, or
\* on a terminal with no argument at all.
StartNextRun ==
    /\ Exited /\ report = "success"
    /\ previous = NoRun
    /\ previous' = [name |-> skillName, report |-> report]
    /\ \E list \in FirstRunArgLists, tty \in BOOLEAN :
          /\ \/ (list # <<>> /\ list[1] = skillName.s)
             \/ (list = <<>> /\ tty)
          /\ args' = list
          /\ isInteractive' = tty
    /\ pc' = "start"
    /\ skillName' = Undefined /\ description' = <<>> /\ author' = <<>>
    /\ version' = <<>> /\ tags' = <<>> /\ license' = <<>>
    /\ optionalFields' = NoResponses /\ dirIndex' = 0 /\ exitCode' = -1
    /\ report' = "none" /\ prompted' = <<>> /\ cancelled' = {}
    /\ rejected' = 0
    /\ filesAtStart' = files
    /\ UNCHANGED <<callVars, files, intruded>>

NextRuns == Next \/ StartNextRun

SpecRuns == InitRuns /\ [][NextRuns]_vars

\* The run is the second of two, made for the name of the first, and has
\* gone past the help and version flags.
SecondRunForSameName ==
    /\ previous.report = "success"
    /\ Truthy(skillName) /\ skillName = previous.name

\* The run is the first one, in the empty directory, and has a valid name
\* and a description.
FirstRunWithNameAndDescription ==
    /\ previous = NoRun
    /\ validateSkillName(skillName) /\ Len(description) > 0

\* C4: of two runs in a row with the same valid name in the same directory,
\* nothing removed in between, the first succeeds (it ends with the success
\* report unless a filesystem call fails), and the second ends with the
\* path-exists error and exit code 1, writes nothing and leaves every file
\* of the first run as it was: the filesystem at its exit is the filesystem
\* at its start.
C4_SecondRunRefused ==
    /\ (Exited /\ FirstRunWithNameAndDescription) =>
           report \in {"success", "fsError"}
    /\ (Exited /\ SecondRunForSameName) =>
           /\ report = "pathExists" /\ exitCode = 1
           /\ files = filesAtStart

\* C4 witness: a second run for the name of the first has ended and the
\* SKILL.md of the first run is on disk.
C4_Witness ==
    /\ Exited /\ SecondRunForSameName
    /\ <<skillName.s, FileSkillMd>> \in DOMAIN files

(***************************************************************************)
(* A run with another process at work in the same directory                *)
(***************************************************************************)
\* The positions of main() after the path check has passed and before the
\* skill directory is created.
AfterCheckBeforeCreate ==
    {"promptDescription", "checkDescription", "promptAuthor", "promptVersion",
     "promptTags", "promptLicense", "update", "mkdir"}

\* Another process creates the target path in that window: a directory with
\* a SKILL.md of its own, or a regular file.
OtherProcessCreatesTarget ==
    /\ pc \in AfterCheckBeforeCreate
    /\ ~intruded
    /\ intruded' = TRUE
    /\ \/ files' = WriteFileSync(MkdirSync(files, TargetPath),
                                 PathJoin(TargetPath, FileSkillMd), TextTheirs)
       \/ files' = WriteFileSync(files, TargetPath, TextTheirs)
    /\ UNCHANGED <<callVars, envVars, fieldVars, optionalFields, pc, dirIndex,
                   exitCode, report, prompted, cancelled, rejected>>

NextRace == Next \/ OtherProcessCreatesTarget

SpecRace == Init /\ [][NextRace]_vars

\* C5: when another process creates the target path after the path check of
\* this run and before this run creates the skill directory, a run that goes
\* on to the creation ends with the filesystem error and exit code 1, never
\* with the success report.
C5_Original ==
    (Exited /\ intruded /\ report \in {"success", "fsError"}) =>
        (report = "fsError" /\ exitCode = 1)

\* C6: once the user has cancelled a prompt (name, description, author,
\* version, tags or license) the run has ended: it has reported the
\* cancellation, exited with code 0 and left the filesystem untouched.
C6_Original ==
    cancelled # {} =>
        /\ Exited /\ report = "cancelled" /\ exitCode = 0
        /\ files = filesAtStart

(***************************************************************************)
(* The resolution of the fields                                            *)
(***************************************************************************)
\* The run has reported success.
Succeeded == Exited /\ report = "success"

\* The lines of the SKILL.md of this run.
SkillMdLines == SplitLines(files[<<skillName.s, FileSkillMd>>].data)

\* The prompt for the field f has been shown.
WasPrompted(f) == \E i \in 1..Len(prompted) : prompted[i] = f

\* The values the flags of the command line carry.
Supplied == ParseOptions(args, 2, NoOptions)

\* The option flags.
OptionFlags == {ArgDescription, ArgD, ArgAuthor, ArgVersionFlag, ArgTags, ArgLicense}

\* The command line asks for help or for the version.
HelpOrVersionAsked ==
    \E i \in 1..Len(args) : args[i] \in {ArgHelp, ArgH, ArgVersion, ArgV}

\* A skill name is given on the command line: there is a first argument, it
\* is not empty and it is not an option flag.
NameOnCommandLine ==
    /\ Len(args) >= 1
    /\ Len(args[1]) > 0
    /\ args[1] \notin OptionFlags

\* C11: in an interactive run that succeeds, an optional field whose prompt
\* the user answered with empty input leaves no line in SKILL.md: no
\* 'author: ', 'version: ' or 'license: ' line, and for tags neither the
\* 'tags:' line nor an item line '  - '.
C11_Original ==
    (Succeeded /\ isInteractive) =>
        LET ls == SkillMdLines
        IN  /\ optionalFields.author = Str(<<>>) => LinesStarting(ls, KwAuthor) = {}
            /\ optionalFields.version = Str(<<>>) => LinesStarting(ls, KwVersion) = {}
            /\ optionalFields.license = Str(<<>>) => LinesStarting(ls, KwLicense) = {}
            /\ optionalFields.tags = ListAnswer(<<>>) =>
                  /\ LinesStarting(ls, KwTags) = {}
                  /\ LinesStarting(ls, KwTagItem) = {}

\* C12: a field supplied non-empty on the command line is never prompted
\* for, and a run that succeeds has written exactly the supplied value for
\* it to SKILL.md: the name on line 2, the description on line 3, one line
\* for author, version and license, and for tags the 'tags:' line followed
\* by one item line per supplied tag.
C12_SuppliedNeverPromptedWrittenAsIs ==
    LET o == Supplied
    IN  /\ Truthy(FirstArg(args)) => ~WasPrompted("name")
        /\ o.description # <<>> => ~WasPrompted("description")
        /\ o.author # <<>> => ~WasPrompted("author")
        /\ o.version # <<>> => ~WasPrompted("version")
        /\ o.tags # <<>> => ~WasPrompted("tags")
        /\ o.license # <<>> => ~WasPrompted("license")
        /\ Succeeded =>
              LET ls == SkillMdLines
                  T  == LinesStarting(ls, KwTags)
              IN  /\ Truthy(FirstArg(args)) => ls[2] = KwName \o args[1]
                  /\ o.description # <<>> => ls[3] = KwDescription \o o.description
                  /\ o.author # <<>> =>
                        \E k \in 1..Len(ls) :
                            /\ LinesStarting(ls, KwAuthor) = {k}
                            /\ ls[k] = KwAuthor \o o.author
                  /\ o.version # <<>> =>
                        \E k \in 1..Len(ls) :
                            /\ LinesStarting(ls, KwVersion) = {k}
                            /\ ls[k] = KwVersion \o o.version
                  /\ o.license # <<>> =>
                        \E k \in 1..Len(ls) :
                            /\ LinesStarting(ls, KwLicense) = {k}
                            /\ ls[k] = KwLicense \o o.license
                  /\ o.tags # <<>> =>
                        \E k \in 1..Len(ls) :
                            /\ T = {k}
                            /\ ls[k] = KwTags
                            /\ LinesStarting(ls, KwTagItem) =
                                  (k + 1)..(k + Len(o.tags))
                            /\ \A i \in 1..Len(o.tags) :
                                  ls[k + i] = KwTagItem \o o.tags[i]

\* C12 witness: an interactive run with the author and the tags on the
\* command line has shown a prompt for another field and has succeeded.
C12_Witness ==
    /\ Succeeded /\ isInteractive
    /\ Supplied.author # <<>> /\ Supplied.tags # <<>>
    /\ WasPrompted("version") /\ ~WasPrompted("author")

\* C13: a non-interactive run that lacks a required field shows no prompt,
\* ends with the missing-field error for that field and exit code 1, and
\* leaves the filesystem as it was: the missing-name error when no name is
\* on the command line, the missing-description error when a valid name for
\* a free path is given without a description.
C13_Original ==
    (Exited /\ ~isInteractive /\ ~HelpOrVersionAsked) =>
        /\ prompted = <<>>
        /\ ~NameOnCommandLine =>
              /\ report = "missingName" /\ exitCode = 1
              /\ files = filesAtStart
        /\ ( /\ NameOnCommandLine
             /\ validateSkillName(Str(args[1]))
             /\ validatePathAvailable(filesAtStart, <<args[1]>>)
             /\ Supplied.description = <<>> ) =>
              /\ report = "missingDescription" /\ exitCode = 1
              /\ files = filesAtStart

\* C14: with a terminal attached and no skill name on the command line (no
\* argument at all, or option flags only) the first thing a run does after
\* reading the command line is to show the name prompt.
C14_Original ==
    ( /\ isInteractive /\ ~NameOnCommandLine /\ ~HelpOrVersionAsked
      /\ pc # "start" ) =>
        (prompted # <<>> /\ prompted[1] = "name")

(***************************************************************************)
(* What a run leaves on disk and how it ends                               *)
(***************************************************************************)
\* The paths a run creates under the target directory t, in the order the
\* claims give: the skill directory, each subdirectory followed by its
\* placeholder, SKILL.md, README.md.
CreationOrder(t) ==
    << t,
       t \o <<DirScripts>>,    t \o <<DirScripts, FileGitkeep>>,
       t \o <<DirReferences>>, t \o <<DirReferences, FileGitkeep>>,
       t \o <<DirAssets>>,     t \o <<DirAssets, FileGitkeep>>,
       t \o <<FileSkillMd>>,
       t \o <<FileReadme>> >>

\* The paths at or under t that exist.
Under(t) == {p \in DOMAIN files : Len(p) >= Len(t) /\ SubSeq(p, 1, Len(t)) = t}

\* The paths of CreationOrder(t) that exist are the first ones of the order.
CreatedInOrder(t) ==
    \A k \in 1..Len(CreationOrder(t)) :
        CreationOrder(t)[k] \in DOMAIN files =>
            \A j \in 1..k : CreationOrder(t)[j] \in DOMAIN files

\* Main() is past the path check: the name is a string and the target path
\* was free.
PastPathCheck ==
    pc \in AfterCheckBeforeCreate \cup
           {"mkdirSub", "writeGitkeep", "skillMd", "readme", "success"}

\* Everything the run found at its start is still there, unchanged.
NothingRemoved ==
    \A p \in DOMAIN filesAtStart :
        p \in DOMAIN files /\ files[p] = filesAtStart[p]

\* C15: a run that reports success leaves under <name>/ exactly the skill
\* directory, the three subdirectories and the five files SKILL.md,
\* README.md, scripts/.gitkeep, references/.gitkeep, assets/.gitkeep, each
\* .gitkeep empty; and at every moment of a run the paths written so far
\* are the first ones of the order directory, scripts, references, assets
\* (each with its placeholder), SKILL.md, README.md, so that success comes
\* after all of them.
C15_LayoutAndOrder ==
    /\ (PastPathCheck \/ Succeeded) =>
          /\ CreatedInOrder(TargetPath)
          /\ Under(TargetPath) \subseteq
                {CreationOrder(TargetPath)[k] : k \in 1..9}
    /\ Succeeded =>
          LET t == TargetPath
          IN  /\ Under(t) = {CreationOrder(t)[k] : k \in 1..9}
              /\ \A k \in {1, 2, 4, 6} : files[CreationOrder(t)[k]] = DirEntry
              /\ \A k \in {3, 5, 7} : files[CreationOrder(t)[k]] = FileEntry(<<>>)
              /\ \A k \in {8, 9} : files[CreationOrder(t)[k]].kind = "file"
              /\ NothingRemoved

\* C15 witness: a run has written SKILL.md and not yet README.md.
C15_Witness ==
    /\ pc = "readme"
    /\ TargetPath \o <<FileSkillMd>> \in DOMAIN files
    /\ TargetPath \o <<FileReadme>> \notin DOMAIN files

\* C16: when a filesystem call fails after the skill directory has been
\* created, that step changes nothing on disk and ends the run with the
\* error report and exit code 1; nothing follows the end of a run; and a
\* run that has ended so has kept everything it found and everything it had
\* written, the paths written being the first ones of the creation order,
\* README.md never among them.
C16_FailureStopsAndKeeps ==
    /\ [][ (pc \in {"mkdirSub", "writeGitkeep", "skillMd", "readme"}
              /\ report' = "fsError")
           => (pc' = "exit" /\ exitCode' = 1 /\ files' = files) ]_vars
    /\ [][ pc # "exit" ]_vars
    /\ []( (Exited /\ report = "fsError") =>
              /\ exitCode = 1
              /\ NothingRemoved
              /\ CreatedInOrder(TargetPath)
              /\ TargetPath \o <<FileReadme>> \notin DOMAIN files )

\* C16 witness: a run has ended with the filesystem error after it had
\* written SKILL.md.
C16_Witness ==
    /\ Exited /\ report = "fsError" /\ exitCode = 1
    /\ TargetPath \o <<FileSkillMd>> \in DOMAIN files

\* C17: every run ends with exit code 0 or 1: code 0 exactly when the skill
\* was created, help or the version was printed, or a prompt was cancelled;
\* code 1 exactly when the name is missing or invalid, the description is
\* missing, the target path exists or a filesystem call failed.
C17_Original ==
    Exited =>
        /\ exitCode \in {0, 1}
        /\ exitCode = 0 <=>
              \/ report \in {"success", "help", "version"}
              \/ cancelled # {}
        /\ exitCode = 1 <=>
              report \in {"missingName", "invalidName", "missingDescription",
                          "pathExists", "fsError"}

\* The place of a field in the order of the prompts.
PromptOrder ==
    [name |-> 1, description |-> 2, author |-> 3, version |-> 4, tags |-> 5,
     license |-> 6]

\* C18: the prompts shown so far are in the order name, description,
\* author, version, tags, license, none shown twice and none for an earlier
\* field after one for a later field.
C18_PromptsInOrder ==
    \A i, j \in 1..Len(prompted) :
        i < j => PromptOrder[prompted[i]] < PromptOrder[prompted[j]]

\* C18 witness: an interactive run with no argument has shown all six
\* prompts.
C18_Witness == Len(prompted) = 6

\* C19: when -h, --help, -v or --version is among the arguments the run
\* does nothing but end with help or the version and exit code 0: the name
\* is not read, no prompt is shown and the filesystem stays as it was,
\* whatever the other arguments are.
C19_HelpAndVersionShortCircuit ==
    HelpOrVersionAsked =>
        /\ pc \in {"start", "exit"}
        /\ skillName = Undefined
        /\ prompted = <<>>
        /\ files = filesAtStart
        /\ Exited => (exitCode = 0 /\ report \in {"help", "version"})

\* C19 witness: a run with an invalid name, a help or version flag and the
\* directory 'sk' in place has ended.
C19_Witness ==
    /\ Exited /\ HelpOrVersionAsked
    /\ args[1] = NameBad
    /\ <<NameSk>> \in DOMAIN files

(***************************************************************************)
(* Direct calls of generateSkillMdContent for the title line, as in        *)
(* __tests__/utils.test.js                                                 *)
(***************************************************************************)
MaxTitleLen == 3

\* A lower-case letter, the last one, an upper-case letter, a digit, the
\* underscore and the hyphen.
TitleChars == {"a", "z", "Z", "7", "_", "-"}

TitleNames == StringsUpTo(TitleChars, MaxTitleLen)

InitTitle ==
    /\ fn = "generateSkillMdContent"
    /\ arg \in [ name        : {Str(n) : n \in TitleNames},
                 description : {Undefined, Str(TextD)},
                 author      : {Undefined},
                 version     : {Undefined},
                 tags        : {Undefined},
                 license     : {Undefined, Str(TextMIT)} ]
    /\ returned = FALSE
    /\ ret = <<>>
    /\ NoRunInProgress

NextTitle == CallGenerateSkillMdContent

SpecTitle == InitTitle /\ [][NextTitle]_vars

\* The upper-case letter of a lower-case letter, any other character as it
\* is.
UpperOf(c) ==
    IF \E i \in 1..Len(Alphabet) : Alphabet[i] = c
    THEN AlphabetUpper[CHOOSE i \in 1..Len(Alphabet) : Alphabet[i] = c]
    ELSE c

\* C20: the output has one title line, '# ' + t + ' Skill', where t is the
\* name with only its first character upper-cased: t is as long as the
\* name, every character after the first is the character of the name, the
\* first is the upper-case form of the first of the name, and a name that
\* starts with an upper-case letter, a digit, an underscore or a hyphen
\* gives t = name.
C20_TitleCapitalisesFirstOnly ==
    Rendered =>
        LET n  == arg.name.s
            ls == SplitLines(ret)
        IN  \E k \in 1..Len(ls) :
              /\ LinesStarting(ls, <<"#", " ">>) = {k}
              /\ Len(ls[k]) = Len(n) + 8
              /\ LET t == SubSeq(ls[k], 3, Len(n) + 2)
                 IN  /\ ls[k] = <<"#", " ">> \o t \o <<" ", "S", "k", "i", "l", "l">>
                     /\ \A i \in 2..Len(n) : t[i] = n[i]
                     /\ n # <<>> => t[1] = UpperOf(n[1])
                     /\ (n # <<>> /\ n[1] \notin LowerCase) => t = n

\* C20 witness: the title of a name that starts with a lower-case letter
\* and has a hyphen and another lower-case letter after it.
C20_Witness ==
    /\ Rendered
    /\ arg.name.s = <<"a", "-", "z">>

(***************************************************************************)
(* Direct calls of createReadme, as in __tests__/utils.test.js             *)
(***************************************************************************)
\* createReadme(skillPath, skillName) is called with the working directory
\* as skillPath, the directory empty.
InitReadme ==
    /\ fn = "createReadme"
    /\ arg \in {Str(n) : n \in TitleNames}
    /\ returned = FALSE
    /\ ret = <<>>
    /\ NoRunInProgress

\* fs.writeFileSync(path.join(skillPath, 'README.md'), content)
CallCreateReadme ==
    /\ fn = "createReadme"
    /\ ~returned
    /\ returned' = TRUE
    /\ files' = WriteFileSync(files, PathJoin(<<>>, FileReadme), ReadmeContent(arg.s))
    /\ UNCHANGED <<fn, arg, ret, args, isInteractive, pc, skillName,
                   description, author, version, tags, license, optionalFields,
                   dirIndex, exitCode, report, prompted, cancelled, rejected,
                   filesAtStart, previous, intruded>>

NextReadme == CallCreateReadme

SpecReadme == InitReadme /\ [][NextReadme]_vars

\* The title line of the SKILL.md rendered for the name n: its one line that
\* starts with '# '.
SkillMdTitleLine(n) ==
    LET ls == SplitLines(generateSkillMdContent(
                  [name |-> Str(n), description |-> Str(TextD),
                   author |-> Undefined, version |-> Undefined,
                   tags |-> Undefined, license |-> Undefined]))
    IN  ls[CHOOSE k \in 1..Len(ls) : StartsWith(ls[k], <<"#", " ">>)]

\* C21: the README.md that createReadme writes starts with the line
\* '# <name> Skill', the name exactly as given; for a name that starts with
\* a lower-case letter this line and the title line of SKILL.md are of the
\* same length and differ in the first character of the name and nowhere
\* else.
C21_ReadmeTitleNotCapitalised ==
    (fn = "createReadme" /\ returned) =>
        LET n     == arg.s
            title == SplitLines(files[<<FileReadme>>].data)[1]
            other == SkillMdTitleLine(n)
        IN  /\ title = <<"#", " ">> \o n \o <<" ", "S", "k", "i", "l", "l">>
            /\ (n # <<>> /\ n[1] \in LowerCase) =>
                  /\ Len(other) = Len(title)
                  /\ {i \in 1..Len(title) : title[i] # other[i]} = {3}

\* C21 witness: the README of a name that starts with a lower-case letter
\* has been written.
C21_Witness ==
    /\ fn = "createReadme" /\ returned
    /\ arg.s = <<"z", "-", "a">>
    /\ <<FileReadme>> \in DOMAIN files

(***************************************************************************)
(* The name in use, the place of the path check, the description written   *)
(***************************************************************************)
\* C22: the filesystem differs from the one the run found, or main() is at
\* a filesystem call, only with a skill name that passes validateSkillName;
\* and the name prompt is left for the rest of the run only with a name
\* that passes validateSkillName, any other input leaving the prompt open.
C22_OnlyValidNamesReachTheFilesystem ==
    /\ []( (files # filesAtStart \/ pc \in FilesystemCalls)
              => validateSkillName(skillName) )
    /\ [][ (pc = "promptName" /\ pc' # "promptName" /\ pc' # "exit")
              => validateSkillName(skillName') ]_vars
    /\ [][ (pc = "promptName" /\ pc' = "promptName")
              => (skillName' = skillName /\ files' = files) ]_vars

\* C22 witness: a run has written to the filesystem under a name typed at
\* the name prompt.
C22_Witness ==
    /\ files # filesAtStart
    /\ WasPrompted("name")
    /\ validateSkillName(skillName)

\* The target path of this run was free when the run started.
TargetWasFree == validatePathAvailable(filesAtStart, TargetPath)

SkillMdWritten == pc \in {"readme", "success"} \/ Succeeded

\* C24: when a run has written SKILL.md the description it passed to the
\* renderer is a non-empty string, line 3 of the file is 'description: '
\* followed by it, and that line is not the renderer's default
\* 'description: A skill for <name> functionality.'.
C24_DescriptionAlwaysResolved ==
    SkillMdWritten =>
        /\ Len(description) > 0
        /\ SkillMdLines[3] = KwDescription \o description
        /\ SkillMdLines[3] # KwDescription \o DefaultDescriptionPrefix
                                \o skillName.s \o DefaultDescriptionSuffix

\* C24 witness: an interactive run has written SKILL.md with the
\* description typed at the prompt.
C24_Witness ==
    /\ SkillMdWritten
    /\ WasPrompted("description")
    /\ description = TextD

(***************************************************************************)
(* Runs without a terminal that carry a --tags value                       *)
(***************************************************************************)
MaxTagsTextLen == 4

\* The values of --tags: the texts of two letters, the comma and the space.
TagsTexts == StringsUpTo({"t", "u", ",", " "}, MaxTagsTextLen)

\* create-skills sk -d 'Do it' --tags <text> in an empty directory, and the
\* same command line with --tags as its last argument.
InitTags ==
    /\ NoCallInProgress
    /\ previous = NoRun
    /\ \E list \in {<<NameSk, ArgD, TextD, ArgTags, v>> : v \in TagsTexts}
                      \cup {<<NameSk, ArgD, TextD, ArgTags>>} :
          StartOfRun(list, FALSE, NoFiles)

\* The steps of main() such a run takes.
NextTags ==
    \/ ParseArgs \/ NameChecked \/ PathAvailable \/ DescriptionChecked
    \/ MkdirTarget \/ MkdirSubdirectory \/ WriteGitkeep
    \/ CreateSkillMd \/ CreateReadme \/ ReportSuccess
    \/ FilesystemError

SpecTags == InitTags /\ [][NextTags]_vars

\* The value of --tags on the command line of such a run: '' when --tags is
\* the last argument.
TagsText == IF Len(args) >= 5 THEN args[5] ELSE <<>>

\* The places where a piece of the text v starts: behind its start and
\* behind each comma.
PieceStarts(v) == {0} \cup {i \in 1..Len(v) : v[i] = ","}

\* The piece that starts behind a: the text up to the next comma or the end.
PieceAt(v, a) ==
    LET ends == {i \in (a + 1)..Len(v) : v[i] = ","} \cup {Len(v) + 1}
        b    == CHOOSE i \in ends : \A j \in ends : i <= j
    IN  SubSeq(v, a + 1, b - 1)

\* A text without the spaces at its two ends.
Stripped(s) ==
    LET ns == {i \in 1..Len(s) : s[i] # " "}
    IN  IF ns = {} THEN <<>>
        ELSE SubSeq(s, CHOOSE i \in ns : \A j \in ns : i <= j,
                       CHOOSE i \in ns : \A j \in ns : i >= j)

\* The places of the pieces of v that are not empty once stripped.
Kept(v) == {a \in PieceStarts(v) : Stripped(PieceAt(v, a)) # <<>>}

\* C25: once the command line is read, the tags are the pieces of the
\* --tags value between its commas, each without the spaces around it, the
\* empty ones left out, the others in their order with their duplicates;
\* when no piece remains the tags are the empty list of a run without
\* --tags, and a run that succeeds writes no 'tags:' line and no item line;
\* otherwise it writes 'tags:' followed by one item line per tag.
C25_TagsSplitTrimmedFiltered ==
    LET v == TagsText
        K == Kept(v)
    IN  /\ pc # "start" =>
              /\ Len(tags) = Cardinality(K)
              /\ \A a \in K :
                    tags[Cardinality({b \in K : b <= a})] = Stripped(PieceAt(v, a))
              /\ K = {} => tags = NoOptions.tags
        /\ Succeeded =>
              LET ls == SkillMdLines
                  T  == LinesStarting(ls, KwTags)
                  I  == LinesStarting(ls, KwTagItem)
              IN  IF K = {} THEN T = {} /\ I = {}
                  ELSE \E k \in 1..Len(ls) :
                          /\ T = {k}
                          /\ I = (k + 1)..(k + Cardinality(K))
                          /\ \A a \in K :
                                ls[k + Cardinality({b \in K : b <= a})]
                                    = KwTagItem \o Stripped(PieceAt(v, a))

\* C25 witness: a run given --tags 't,,t' has succeeded with the tag t
\* twice.
C25_Witness ==
    /\ Succeeded
    /\ TagsText = <<"t", ",", ",", "t">>
    /\ tags = << <<"t">>, <<"t">> >>

(***************************************************************************)
(* Termination                                                             *)
(***************************************************************************)
\* The runs followed to their end: the command lines of FirstRunArgLists,
\* with and without a terminal, in each of the initial directories.
\* A run goes on as long as it can: the synchronous steps of main() are
\* taken, an optional prompt gets its answer or its cancel, and the name
\* and description prompts, which may reject their input, get in the end an
\* input they accept or a cancel.
InitLive ==
    /\ NoCallInProgress
    /\ previous = NoRun
    /\ \E list \in FirstRunArgLists, tty \in BOOLEAN, disk \in InitialFiles :
          StartOfRun(list, tty, disk)

SpecLive ==
    /\ InitLive /\ [][Next]_vars
    /\ WF_vars(Next)
    /\ WF_vars(NameAccepted \/ NameCancelled)
    /\ WF_vars(DescriptionAccepted \/ DescriptionCancelled)

\* How far main() has come: its positions in the order of the source, the
\* turns of the loop over the subdirectories counted by dirIndex.
Position ==
    [start |-> 0, promptName |-> 1, validateName |-> 2, checkPath |-> 3,
     promptDescription |-> 4, checkDescription |-> 5, promptAuthor |-> 6,
     promptVersion |-> 7, promptTags |-> 8, promptLicense |-> 9,
     update |-> 10, mkdir |-> 11, mkdirSub |-> 12, writeGitkeep |-> 13,
     skillMd |-> 14, readme |-> 15, success |-> 16, exit |-> 17]

Progress(position, index) == index * Cardinality(DOMAIN Position) + Position[position]

\* C26: every run reaches its exit; a run without a terminal is never at a
\* prompt; and every step of a run moves main() forward, except a rejected
\* input at the name or the description prompt, which leaves the prompt
\* open: the re-prompt is the only way a run stays where it is.
C26_EveryRunTerminates ==
    /\ <>Exited
    /\ [](~isInteractive => (pc \notin DOMAIN PromptOf /\ prompted = <<>>))
    /\ [][ \/ Progress(pc', dirIndex') > Progress(pc, dirIndex)
           \/ /\ pc' = pc /\ pc \in {"promptName", "promptDescription"}
              /\ rejected' = rejected + 1 ]_vars

\* C26 witness: an interactive run that showed the name and the description
\* prompt has reached its exit with the skill created.
C26_Witness ==
    /\ Succeeded /\ isInteractive
    /\ WasPrompted("name") /\ WasPrompted("description")

====
